---- MODULE Spec2Model ----
(***************************************************************************)
(* crew-clock: the punch store (sqlite table "entries"), the punch form    *)
(* handler clock_submit, the pairing/aggregation functions                 *)
(* (_find_open_in_ts, calculate_daily_hours, weekly_buckets) and the       *)
(* Google-Sheets mirror (week sheets, totals sheets, all-weeks summary).   *)
(*                                                                         *)
(* Time.  One tick is 12 seconds, so an hour is 300 ticks and a duration   *)
(* of d ticks is d/300 hours.  round(h, 2) of such a duration never meets  *)
(* a tie (d/3 hundredths has fractional part 0, 1/3 or 2/3), so it is      *)
(* exact integer arithmetic here.  Unrounded hours are carried as ticks,   *)
(* rounded hours as hundredths of an hour.                                 *)
(* Tick 0 is a Monday 00:00:00 (wall clock), the start of ISO week 0.      *)
(***************************************************************************)
EXTENDS Integers, Sequences, FiniteSets, TLC

VARIABLES
    entries,      \* sqlite table entries: row id = index, <<crew, action, ts>>
    clock,        \* the host clock: an absolute instant (ticks)
    req,          \* per request worker: position in clock_submit and its locals
    week_ws,      \* mirror: week -> worksheet "Week <W>"
    totals_ws,    \* mirror: week -> worksheet "Totals Week <W>"
    all_weeks_ws, \* mirror: worksheet "All Weeks Summary"
    failures,     \* mirror calls that have failed so far
    rebuilds,     \* /rebuild-totals requests served so far
    clock_logs,   \* table clock_logs (models.ClockLog): <<crew_name, action, ts>>
    rejected,     \* the form of the last request clock_submit turned away
    daily_hours,  \* what clock_page last got from calculate_daily_hours
    report        \* what weekly_buckets last returned

vars == <<entries, clock, req, week_ws, totals_ws, all_weeks_ws, failures,
          rebuilds, clock_logs, rejected, daily_hours, report>>

mirror == <<week_ws, totals_ws, all_weeks_ws>>

(***************************************************************************)
(* Bounds of the model                                                     *)
(***************************************************************************)
MaxEntries == 2
MaxFailures == 2
MaxRebuilds == 1
MaxLogs == 4
MaxRows == 2

(***************************************************************************)
(* Calendar and clock                                                      *)
(***************************************************************************)
TicksPerHour == 300
TicksPerDay == 24 * TicksPerHour
TicksPerWeek == 7 * TicksPerDay

\* End of daylight saving in TZ (America/New_York): Sunday 02:00 local
\* becomes 01:00.  Instants from FallBack on read one hour less on the wall.
FallBack == 6 * TicksPerDay + 2 * TicksPerHour

\* datetime.now(TZ) as local wall-clock reading of an absolute instant
Wall(i) == IF i >= FallBack THEN i - TicksPerHour ELSE i

\* The instants at which the clock is sampled: Sunday 01:50 (before the fall
\* back), 20 minutes later (wall 01:10), and Monday 00:00:48 of the next
\* ISO week.
Instants ==
    { FallBack - 50, FallBack + 50, TicksPerWeek + TicksPerHour + 4 }

\* strftime("%Y-%m-%d %H:%M:%S"): the wall reading, offset and fold dropped;
\* strptime(...).replace(tzinfo=TZ) reads it back as that wall reading.
strftime_ts(i) == Wall(i)

\* strftime("%Y-%m-%d") / .date(): the calendar day of a wall reading
DateOf(w) == w \div TicksPerDay

\* _week_title / isocalendar(): the ISO week of a wall reading
WeekOf(w) == w \div TicksPerWeek

\* the ISO week a calendar day lies in (log_week_row parses date_str)
WeekOfDate(d) == d \div 7

\* round(ticks / 300 hours, 2) in hundredths of an hour (half to even; a tie
\* needs 2 * 100 * d = TicksPerHour (mod 2 * TicksPerHour), never with 300)
Round2(d) ==
    LET n == 100 * d
        q == n \div TicksPerHour
        r == n % TicksPerHour
    IN  IF 2 * r < TicksPerHour THEN q
        ELSE IF 2 * r > TicksPerHour THEN q + 1
        ELSE IF q % 2 = 0 THEN q ELSE q + 1

(***************************************************************************)
(* Dictionaries (Python dict / defaultdict) as functions on their keys     *)
(***************************************************************************)
EmptyDict == <<>>

\* d[k] += v on a defaultdict(float)
DictAdd(d, k, v) ==
    IF k \in DOMAIN d THEN [d EXCEPT ![k] = @ + v] ELSE (k :> v) @@ d

(***************************************************************************)
(* The punch store                                                         *)
(***************************************************************************)
Crews == {"a", "B"}
Actions == {"IN", "OUT"}

\* A variant of the insert that writes over the newest row of the table
insert_or_replace(tbl, crew, action, ts) ==
    IF tbl = <<>> THEN <<<<crew, action, ts>>>>
    ELSE [tbl EXCEPT ![Len(tbl)] = <<crew, action, ts>>]

\* insert_entry: INSERT INTO entries (crew, action, ts)
insert_entry(tbl, crew, action, ts) == Append(tbl, <<crew, action, ts>>)

\* The ids of crew's rows in the order "ORDER BY ts ASC, id ASC"
RECURSIVE SortByTsId(_, _)
SortByTsId(tbl, ids) ==
    IF ids = {} THEN <<>>
    ELSE LET m == CHOOSE i \in ids :
                    \A j \in ids : tbl[i][3] < tbl[j][3]
                                   \/ (tbl[i][3] = tbl[j][3] /\ i <= j)
         IN  <<m>> \o SortByTsId(tbl, ids \ {m})

RowsOfCrew(tbl, crew) == {i \in 1..Len(tbl) : tbl[i][1] = crew}

\* The loop of _find_open_in_ts over ids in order: push on IN, pop on OUT
RECURSIVE StackAfter(_, _, _)
StackAfter(tbl, order, stack) ==
    IF order = <<>> THEN stack
    ELSE LET i == Head(order)
             s == IF tbl[i][2] = "IN" THEN Append(stack, i)
                  ELSE IF tbl[i][2] = "OUT" /\ stack # <<>>
                       THEN SubSeq(stack, 1, Len(stack) - 1)
                       ELSE stack
         IN  StackAfter(tbl, Tail(order), s)

\* _find_open_in_ts, as the stack of row ids left open (top last)
OpenStack(tbl, crew) == StackAfter(tbl, SortByTsId(tbl, RowsOfCrew(tbl, crew)), <<>>)

\* _find_open_in_ts: <<id>> of the row whose ts is returned, <<>> for None
find_open_in(tbl, crew) ==
    LET s == OpenStack(tbl, crew)
    IN  IF s # <<>> THEN <<s[Len(s)]>> ELSE <<>>

(***************************************************************************)
(* calculate_daily_hours                                                   *)
(***************************************************************************)
\* sqlite's BINARY collation of the crew names (upper case before lower)
CrewRank(c) == IF c = "B" THEN 1 ELSE 2

\* "SELECT ... ORDER BY crew, ts": every order of the row ids that is sorted
\* by (crew, ts).  Rows equal in both come back in an order SQL leaves open.
DailyOrders(tbl) ==
    LET n == Len(tbl)
    IN  { o \in [1..n -> 1..n] :
            /\ \A i, j \in 1..n : i # j => o[i] # o[j]
            /\ \A i, j \in 1..n : i < j =>
                 \/ CrewRank(tbl[o[i]][1]) < CrewRank(tbl[o[j]][1])
                 \/ /\ tbl[o[i]][1] = tbl[o[j]][1]
                    /\ tbl[o[i]][3] <= tbl[o[j]][3] }

\* The deque of one crew in open_in (a defaultdict: missing key = empty)
DequeOf(open_in, crew) == IF crew \in DOMAIN open_in THEN open_in[crew] ELSE <<>>

\* The IN that "t_in = open_in[crew].popleft()" takes out of a non-empty deque
PopPos(dq) == 1

RemoveAt(s, k) == SubSeq(s, 1, k - 1) \o SubSeq(s, k + 1, Len(s))

\* A variant of the loop body in which an OUT that finds no open IN opens a
\* bucket of zero hours on its own day
DailyStepOpensOnOut(tbl, st, i) ==
    LET crew == tbl[i][1]
        action == tbl[i][2]
        t == tbl[i][3]
        dq == DequeOf(st.open_in, crew)
        days == IF crew \in DOMAIN st.totals THEN st.totals[crew] ELSE EmptyDict
    IN  IF action = "IN"
        THEN [st EXCEPT !.open_in = (crew :> Append(dq, i)) @@ st.open_in]
        ELSE IF action = "OUT" /\ dq # <<>>
        THEN [ open_in |-> (crew :> RemoveAt(dq, 1)) @@ st.open_in,
               totals |-> (crew :> DictAdd(days, DateOf(tbl[dq[1]][3]), t - tbl[dq[1]][3]))
                          @@ st.totals,
               pairs |-> Append(st.pairs, <<dq[1], i>>) ]
        ELSE [st EXCEPT !.totals = (crew :> DictAdd(days, DateOf(t), 0)) @@ st.totals]

\* One iteration of the for loop (line 75-82) on row id i.  st.open_in maps a
\* crew to its deque of open IN row ids, st.totals is totals[crew][day] in
\* ticks, st.pairs lists the <<IN id, OUT id>> matched so far.
DailyStep(tbl, st, i) ==
    LET crew == tbl[i][1]
        action == tbl[i][2]
        t == tbl[i][3]
        dq == DequeOf(st.open_in, crew)
    IN  IF action = "IN"
        THEN [st EXCEPT !.open_in = (crew :> Append(dq, i)) @@ st.open_in]
        ELSE IF action = "OUT" /\ dq # <<>>
        THEN LET k == PopPos(dq)
                 t_in == tbl[dq[k]][3]
                 key == DateOf(t_in)
                 days == IF crew \in DOMAIN st.totals THEN st.totals[crew]
                         ELSE EmptyDict
             IN  [ open_in |-> (crew :> RemoveAt(dq, k)) @@ st.open_in,
                   totals |-> (crew :> DictAdd(days, key, t - t_in)) @@ st.totals,
                   pairs |-> Append(st.pairs, <<dq[k], i>>) ]
        ELSE st

RECURSIVE DailyLoop(_, _, _)
DailyLoop(tbl, order, st) ==
    IF order = <<>> THEN st
    ELSE DailyLoop(tbl, Tail(order), DailyStep(tbl, st, Head(order)))

DailyRun(tbl, order) ==
    DailyLoop(tbl, order, [open_in |-> EmptyDict, totals |-> EmptyDict, pairs |-> <<>>])

\* calculate_daily_hours on the rows as fetched in `order`:
\* {crew: {"YYYY-MM-DD": hours}} with hours in ticks
calculate_daily_hours(tbl, order) == DailyRun(tbl, order).totals

(***************************************************************************)
(* utils.weekly_buckets                                                    *)
(***************************************************************************)
\* by_person[name], then logs.sort(key=ts): a stable sort, the row positions
\* of one person ordered by (ts, position)
LogsOf(rows, name) == SortByTsId(rows, {i \in 1..Len(rows) : rows[i][1] = name})

\* "j = i + 1; while j < len(logs): if clock_out: break": the first clock_out
\* after position i of logs, 0 if there is none
NextOut(rows, logs, i) ==
    LET js == {j \in (i + 1)..Len(logs) : rows[logs[j]][2] = "clock_out"}
    IN  IF js = {} THEN 0 ELSE CHOOSE j \in js : \A k \in js : j <= k

\* The while loop (lines 20-38 of utils.py) from position i: st.total is
\* total[wk] in ticks, st.pairs the <<clock_in row, clock_out row>> matched
RECURSIVE BucketLoop(_, _, _, _)
BucketLoop(rows, logs, i, st) ==
    IF i > Len(logs) THEN st
    ELSE IF rows[logs[i]][2] # "clock_in" THEN BucketLoop(rows, logs, i + 1, st)
    ELSE LET j == NextOut(rows, logs, i)
             start == rows[logs[i]][3]
         IN  IF j # 0
             THEN BucketLoop(rows, logs, j + 1,
                    [ total |-> DictAdd(st.total, WeekOf(start), rows[logs[j]][3] - start),
                      pairs |-> Append(st.pairs, <<logs[i], logs[j]>>) ])
             ELSE BucketLoop(rows, logs, i + 1, st)

BucketRun(rows, name) ==
    BucketLoop(rows, LogsOf(rows, name), 1, [total |-> EmptyDict, pairs |-> <<>>])

\* "report[name] = {wk: round(h, 2) ...}": the value published for a bucket,
\* in hundredths of an hour
BucketValue(h) == Round2(h)

\* weekly_buckets: {name: {week: hours}} for every name that has a row
weekly_buckets(rows) ==
    [ name \in {rows[i][1] : i \in 1..Len(rows)} |->
        LET total == BucketRun(rows, name).total
        IN  [wk \in DOMAIN total |-> BucketValue(total[wk])] ]

(***************************************************************************)
(* The mirror: a spreadsheet of worksheets.                                *)
(* A cell is <<>> (empty), <<"s", str>> (text), <<"n", h>> (a number, in   *)
(* hundredths), <<"t", h>> (text that is the decimal rendering of h),      *)
(* <<"ts", w>> / <<"date", d>> / <<"w", W>> (text of a timestamp, a date,  *)
(* a week title).  A worksheet is [exists, values]: its rows of cells.     *)
(***************************************************************************)
Weeks == {WeekOf(Wall(i)) : i \in Instants}

NoSheet == [exists |-> FALSE, values |-> <<>>]

\* gspread get_all_values: every cell as the text the sheet displays
Display(cell) == IF cell # <<>> /\ cell[1] = "n" THEN <<"t", cell[2]>> ELSE cell

get_all_values(ws) ==
    [r \in 1..Len(ws.values) |->
        [c \in 1..Len(ws.values[r]) |-> Display(ws.values[r][c])]]

Text(str) == <<"s", str>>

WeekHeader ==
    << Text("date"), Text("crew"), Text("action"), Text("ts_in"),
       Text("ts_out"), Text("hours"), Text("source") >>
TotalsHeader == << Text("crew"), Text("total_hours"), Text("updated_at") >>
AllWeeksHeader ==
    << Text("week_title"), Text("crew"), Text("total_hours"), Text("updated_at") >>

\* sh.add_worksheet(...): a new, empty worksheet
add_worksheet(ws) == IF ws.exists THEN ws ELSE [exists |-> TRUE, values |-> <<>>]

\* ws.update("A1:..", rows): rows written from the first row on
update(ws, rows) ==
    [ws EXCEPT !.values =
        [r \in 1..(IF Len(rows) > Len(@) THEN Len(rows) ELSE Len(@)) |->
            IF r <= Len(rows) THEN rows[r] ELSE @[r]]]

\* ws.clear()
clear(ws) == [ws EXCEPT !.values = <<>>]

\* ws.append_row(row): after the last row that holds data
append_row(ws, row) == [ws EXCEPT !.values = Append(@, row)]

\* "{name: i for i, name in enumerate(header)}" looked up for one name:
\* the last column with that text, 0 if there is none
ColumnOf(header, name) ==
    LET cs == {c \in 1..Len(header) : header[c] = Text(name)}
    IN  IF cs = {} THEN 0 ELSE CHOOSE c \in cs : \A d \in cs : d <= c

\* str.strip().upper() of the action cell of a fetched row
UpperStrip(cell) ==
    IF cell = <<>> THEN ""
    ELSE IF cell[1] # "s" THEN "<other>"
    ELSE CASE cell[2] \in {"OUT", "out", " out", "Out "} -> "OUT"
           [] cell[2] \in {"IN", "in", " in", "In "} -> "IN"
           [] cell[2] \in {"", " ", "  "} -> ""
           [] OTHER -> cell[2]

\* str.strip() of a form field or of a crew cell
Strip(str) ==
    CASE str \in {"", " ", "  "} -> ""
      [] str \in {" a", "a ", " a "} -> "a"
      [] str \in {" B", "B ", " B "} -> "B"
      [] OTHER -> str

\* case-insensitive sort key rank of a crew name: key=lambda x: x[0].lower()
LowerRank(c) == IF c \in {"a", "A"} THEN 1 ELSE IF c \in {"b", "B"} THEN 2 ELSE 3

(***************************************************************************)
(* log_week_row                                                            *)
(***************************************************************************)
\* "x or ''" for a timestamp, "hours if hours is not None else ''"
TsCell(opt) == IF opt = <<>> THEN <<>> ELSE <<"ts", opt[1]>>
NumCell(opt) == IF opt = <<>> THEN <<>> ELSE <<"n", opt[1]>>

WeekRow(date, crew, action, ts_in, ts_out, hours) ==
    << <<"date", date>>, Text(crew), Text(action), TsCell(ts_in), TsCell(ts_out),
       NumCell(hours), Text("crew-clock") >>

\* _get_or_create_week_ws and the append, call by call: the week sheets
\* after 0 calls, after add_worksheet, after the header update, after
\* append_row.  A call that fails leaves the state before it.
LogStages(wss, date, crew, action, ts_in, ts_out, hours) ==
    LET wk == WeekOfDate(date)
        fresh == ~wss[wk].exists
        w1 == [wss EXCEPT ![wk] = add_worksheet(@)]
        w2 == IF fresh THEN [w1 EXCEPT ![wk] = update(@, <<WeekHeader>>)] ELSE w1
        w3 == [w2 EXCEPT ![wk] =
                 append_row(@, WeekRow(date, crew, action, ts_in, ts_out, hours))]
    IN  <<wss, w1, w2, w3>>

(***************************************************************************)
(* update_weekly_totals_for_week and update_all_weeks_summary              *)
(***************************************************************************)
WeekTotalName == "__WEEK_TOTAL__"

\* The float nan among the hundredths: a value no sum of hours reaches
NaN == 1000000

\* x + y on floats: nan absorbs
FAdd(x, y) == IF x = NaN \/ y = NaN THEN NaN ELSE x + y

\* totals[crew] += hrs on an insertion-ordered dict, kept as <<crew, hrs>> pairs
RECURSIVE PairsAdd(_, _, _)
PairsAdd(ps, crew, hrs) ==
    IF ps = <<>> THEN <<<<crew, hrs>>>>
    ELSE IF ps[1][1] = crew THEN <<<<crew, FAdd(ps[1][2], hrs)>>>> \o Tail(ps)
    ELSE <<ps[1]>> \o PairsAdd(Tail(ps), crew, hrs)

\* float(hrs_str): <<h>>, or <<>> when it raises ValueError.  The text "nan"
\* is read as the float nan, which is no ValueError.
ParseFloat(cell) ==
    IF cell # <<>> /\ cell[1] = "t" THEN <<cell[2]>>
    ELSE IF cell = Text("nan") THEN <<NaN>>
    ELSE <<>>

\* str.strip() of a fetched cell, as the text cell it leaves
StripCell(cell) ==
    IF cell # <<>> /\ cell[1] = "s"
    THEN (IF Strip(cell[2]) = "" THEN <<>> ELSE Text(Strip(cell[2])))
    ELSE cell

\* A variant of the test that counts a row of any action
CountsRowAny(row, ca, cc, ch) ==
    /\ ca <= Len(row) /\ cc <= Len(row) /\ ch <= Len(row)
    /\ ParseFloat(StripCell(row[ch])) # <<>>

\* Which rows add to the totals: the body of the try (lines 221-227)
CountsRow(row, ca, cc, ch) ==
    /\ ca <= Len(row)
    /\ UpperStrip(row[ca]) = "OUT"
    /\ cc <= Len(row)
    /\ ch <= Len(row)
    /\ StripCell(row[ch]) # <<>>
    /\ ParseFloat(StripCell(row[ch])) # <<>>

\* The loop over values[1:] (lines 218-229)
RECURSIVE SumRows(_, _, _, _, _)
SumRows(rows, ca, cc, ch, totals) ==
    IF rows = <<>> THEN totals
    ELSE LET row == Head(rows)
         IN  SumRows(Tail(rows), ca, cc, ch,
                IF CountsRow(row, ca, cc, ch)
                THEN PairsAdd(totals, StripCell(row[cc]), ParseFloat(StripCell(row[ch]))[1])
                ELSE totals)

CellRank(cell) == IF cell # <<>> /\ cell[1] = "s" THEN LowerRank(cell[2]) ELSE 0

\* sorted(totals.items(), key=lambda x: x[0].lower()): a stable sort
RECURSIVE SortedByLower(_)
SortedByLower(ps) ==
    IF ps = <<>> THEN <<>>
    ELSE LET m == CHOOSE i \in 1..Len(ps) :
                    \A j \in 1..Len(ps) :
                        \/ CellRank(ps[i][1]) < CellRank(ps[j][1])
                        \/ (CellRank(ps[i][1]) = CellRank(ps[j][1]) /\ i <= j)
         IN  <<ps[m]>> \o SortedByLower(RemoveAt(ps, m))

RECURSIVE SumPairs(_)
SumPairs(ps) == IF ps = <<>> THEN 0 ELSE FAdd(ps[1][2], SumPairs(Tail(ps)))

\* lines 212-231: <<TRUE, ordered>> or <<FALSE, <<>>>> for "Missing columns"
OrderedTotals(values) ==
    LET header == values[1]
        ca == ColumnOf(header, "action")
        cc == ColumnOf(header, "crew")
        ch == ColumnOf(header, "hours")
    IN  IF ca = 0 \/ cc = 0 \/ ch = 0 THEN <<FALSE, <<>>>>
        ELSE <<TRUE, SortedByLower(SumRows(Tail(values), ca, cc, ch, <<>>))>>

\* lines 234-239: the rows written to the totals sheet
TotalsRows(ordered, now_str) ==
    <<TotalsHeader>>
    \o [k \in 1..Len(ordered) |-> <<ordered[k][1], <<"n", ordered[k][2]>>, <<"ts", now_str>>>>]
    \o (IF Len(ordered) > 0
        THEN << <<Text(WeekTotalName), <<"n", SumPairs(ordered)>>, <<"ts", now_str>>>> >>
        ELSE <<>>)

\* lines 174-186: the rows of the other weeks that are kept
KeepAll(values, week) == IF Len(values) > 1 THEN Tail(values) ELSE <<>>
KeepOthers(values, week) ==
    IF Len(values) > 1
    THEN LET header == values[1]
             col(name, dflt) == IF ColumnOf(header, name) = 0 THEN dflt
                                ELSE ColumnOf(header, name)
             kept == SelectSeq(Tail(values),
                        LAMBDA row : Len(row) >= 2 /\ row[1] # <<"w", week>>)
         IN  [k \in 1..Len(kept) |->
                << kept[k][col("week_title", 1)], kept[k][col("crew", 2)],
                   kept[k][col("total_hours", 3)], kept[k][col("updated_at", 4)] >>]
    ELSE <<>>

\* lines 174-191: the rows update_all_weeks_summary writes
SummaryRows(values, week, ordered, updated_at) ==
    <<AllWeeksHeader>>
    \o KeepOthers(values, week)
    \o [k \in 1..Len(ordered) |->
          << <<"w", week>>, ordered[k][1], <<"n", ordered[k][2]>>, <<"ts", updated_at>> >>]
    \o (IF Len(ordered) > 0
        THEN << << <<"w", week>>, Text(WeekTotalName), <<"n", SumPairs(ordered)>>,
                   <<"ts", updated_at>> >> >>
        ELSE <<>>)

\* update_all_weeks_summary call by call: the summary sheet after 0 calls,
\* after add_worksheet, after the header update of a new sheet, after
\* clear(), after update().  get_all_values is read between the 2nd and 3rd.
SummaryStages(ws, week, ordered, updated_at) ==
    LET fresh == ~ws.exists
        a1 == add_worksheet(ws)
        a2 == IF fresh THEN update(a1, <<AllWeeksHeader>>) ELSE a1
        rows == SummaryRows(get_all_values(a2), week, ordered, updated_at)
        a3 == clear(a2)
        a4 == update(a3, rows)
    IN  <<ws, a1, a2, a3, a4>>

\* update_weekly_totals_for_week(week) at time now_str, call by call.
\* m = [week, totals, all] is the spreadsheet; the result is the sequence of
\* spreadsheets after each mirror call made, the last one being the state in
\* which the function returns (True, None) or (False, "Missing columns"),
\* and ok tells which.
RebuildStages(m, week, now_str) ==
    LET fresh_w == ~m.week[week].exists
        m1 == [m EXCEPT !.week[week] = add_worksheet(@)]
        m2 == IF fresh_w THEN [m1 EXCEPT !.week[week] = update(@, <<WeekHeader>>)]
              ELSE m1
        values == get_all_values(m2.week[week])
        fresh_t == ~m2.totals[week].exists
        m3 == [m2 EXCEPT !.totals[week] = add_worksheet(@)]
        m4 == IF fresh_t THEN [m3 EXCEPT !.totals[week] = update(@, <<TotalsHeader>>)]
              ELSE m3
        empty == Len(values) < 2
        got == IF empty THEN <<TRUE, <<>>>> ELSE OrderedTotals(values)
        ordered == got[2]
        m5 == [m4 EXCEPT !.totals[week] = clear(@)]
        m6 == [m5 EXCEPT !.totals[week] = update(@, TotalsRows(ordered, now_str))]
        sum == SummaryStages(m6.all, week, ordered, now_str)
        tail == [k \in 1..(Len(sum) - 1) |-> [m6 EXCEPT !.all = sum[k + 1]]]
    IN  IF got[1]
        THEN [ok |-> TRUE, stages |-> <<m, m1, m2, m3, m4, m5, m6>> \o tail]
        ELSE [ok |-> FALSE, stages |-> <<m, m1, m2, m3, m4>>]

\* The spreadsheet a complete run leaves, and whether it returned ok
RebuildResult(m, week, now_str) ==
    LET r == RebuildStages(m, week, now_str)
    IN  r.stages[Len(r.stages)]

(***************************************************************************)
(* clock_submit, one request worker p at a time between its accesses to    *)
(* shared state: the clock, the store read, the store write, the mirror    *)
(***************************************************************************)
Procs == {1, 2}

\* What arrives in the form fields "crew" and "action"
Forms ==
    { <<"a", "IN">>, <<"a", " out">>, <<" B", "IN">>, <<" B", " out">>,
      <<"  ", "IN">>, <<"a", "PING">> }

Idle ==
    [ pc |-> "idle", form |-> <<>>, crew |-> "", action |-> "", now |-> 0,
      in_id |-> <<>>, ts_in_val |-> <<>>, ts_out_val |-> <<>>, hours_val |-> <<>> ]

\* lines 265-268: the fields as normalised, and the test that rejects them
FormCrew(form) == Strip(form[1])
FormAction(form) == UpperStrip(Text(form[2]))
AcceptsAnyCrew(form) == FormAction(form) \in {"IN", "OUT"}
Accepts(form) == FormCrew(form) # "" /\ FormAction(form) \in {"IN", "OUT"}

\* lines 269-282 for an accepted form: the clock is read and, for an OUT,
\* the open IN is looked up in the store and the hours are computed
Prepared(form, now, tbl) ==
    LET r == [Idle EXCEPT !.pc = "insert", !.form = form, !.crew = FormCrew(form),
                          !.action = FormAction(form), !.now = now]
        open == find_open_in(tbl, r.crew)
    IN  IF r.action = "OUT" /\ open # <<>>
        THEN [r EXCEPT !.in_id = open,
                       !.ts_in_val = <<tbl[open[1]][3]>>,
                       !.ts_out_val = <<strftime_ts(now)>>,
                       !.hours_val = <<Round2(Wall(now) - tbl[open[1]][3])>>]
        ELSE r

\* lines 264-282: a form arrives; it is turned away, or the request gets as
\* far as its read of the store
Submit(p, form) ==
    /\ req[p].pc = "idle"
    /\ IF Accepts(form)
       THEN /\ Len(entries) < MaxEntries
            /\ req' = [req EXCEPT ![p] = Prepared(form, clock, entries)]
            /\ UNCHANGED rejected
       ELSE /\ rejected' = form
            /\ UNCHANGED req
    /\ UNCHANGED <<entries, clock, mirror, failures, rebuilds, clock_logs,
                   daily_hours, report>>

\* The spreadsheet as one value
Sheets == [week |-> week_ws, totals |-> totals_ws, all |-> all_weeks_ws]

\* log_week_row(date, crew, action, ts_in, ts_out, hours) on spreadsheet m.
\* Each outcome is the spreadsheet it leaves and whether it returned
\* (False, err): it raised at one of its calls, or ran to the end.
LogCall(m, date, crew, action, ts_in, ts_out, hours) ==
    LET stages == LogStages(m.week, date, crew, action, ts_in, ts_out, hours)
    IN  { [m |-> [m EXCEPT !.week = stages[k]], failed |-> k < Len(stages)] :
            k \in 1..Len(stages) }

\* lines 286-289: log_week_row as clock_submit calls it for request r
LogOutcomes(m, r) ==
    IF r.action = "IN"
    THEN LogCall(m, DateOf(Wall(r.now)), r.crew, r.action,
                 <<strftime_ts(r.now)>>, <<>>, <<>>)
    ELSE LogCall(m, DateOf(Wall(r.now)), r.crew, r.action,
                 r.ts_in_val, r.ts_out_val, r.hours_val)

\* update_weekly_totals_for_week(week) on spreadsheet m at wall time now_str,
\* run to its return or to the call that raised (the except clauses turn
\* that into (False, err))
RebuildOutcomes(m, week, now_str) ==
    LET r == RebuildStages(m, week, now_str)
    IN  { [m |-> r.stages[k], failed |-> k < Len(r.stages)] :
            k \in 1..Len(r.stages) }

\* the week update_weekly_totals_for_week is called with at lines 290-291
RebuildWeek(r) == WeekOf(Wall(r.now))

\* lines 286-293: the mirror calls of request r, made at wall time now_str:
\* the spreadsheet left and how many of the two calls failed
MirrorOutcomes(m, r, now_str) ==
    IF r.action = "IN"
    THEN { [m |-> o.m, failed |-> IF o.failed THEN 1 ELSE 0] : o \in LogOutcomes(m, r) }
    ELSE UNION { { [m |-> o2.m,
                    failed |-> (IF o1.failed THEN 1 ELSE 0) + (IF o2.failed THEN 1 ELSE 0)] :
                    o2 \in RebuildOutcomes(o1.m, RebuildWeek(r), now_str) } :
                 o1 \in LogOutcomes(m, r) }

\* line 284 and what the rest of the handler does to the store: the punch
\* is inserted before the mirror is called, and is left there
StoreAfterRollback(tbl, r, failed) ==
    IF failed > 0 THEN tbl ELSE insert_entry(tbl, r.crew, r.action, strftime_ts(r.now))
StoreAfter(tbl, r, failed) == insert_entry(tbl, r.crew, r.action, strftime_ts(r.now))

\* lines 284-296: the punch is written, the mirror is called, the request
\* returns its redirect
Finish(p) ==
    /\ req[p].pc = "insert"
    /\ \E o \in MirrorOutcomes(Sheets, req[p], strftime_ts(clock)) :
          /\ failures + o.failed <= MaxFailures
          /\ failures' = failures + o.failed
          /\ entries' = StoreAfter(entries, req[p], o.failed)
          /\ week_ws' = o.m.week
          /\ totals_ws' = o.m.totals
          /\ all_weeks_ws' = o.m.all
    /\ req' = [req EXCEPT ![p] = Idle]
    /\ UNCHANGED <<clock, rebuilds, clock_logs, rejected, daily_hours, report>>

\* rebuild_totals (/rebuild-totals?week=...) and the admin page's rebuild
RebuildTotals(week) ==
    /\ rebuilds < MaxRebuilds
    /\ rebuilds' = rebuilds + 1
    /\ \E o \in RebuildOutcomes(Sheets, week, strftime_ts(clock)) :
          /\ failures + (IF o.failed THEN 1 ELSE 0) <= MaxFailures
          /\ failures' = failures + (IF o.failed THEN 1 ELSE 0)
          /\ week_ws' = o.m.week
          /\ totals_ws' = o.m.totals
          /\ all_weeks_ws' = o.m.all
    /\ UNCHANGED <<entries, clock, req, clock_logs, rejected, daily_hours,
                   report>>

\* time passes
Tick ==
    /\ \E i \in Instants : i > clock /\ clock' = i
    /\ UNCHANGED <<entries, req, mirror, failures, rebuilds, clock_logs,
                   rejected, daily_hours, report>>

FirstInstant == CHOOSE i \in Instants : \A j \in Instants : i <= j

Init ==
    /\ entries = <<>>
    /\ clock = FirstInstant
    /\ req = [p \in Procs |-> Idle]
    /\ week_ws = [w \in Weeks |-> NoSheet]
    /\ totals_ws = [w \in Weeks |-> NoSheet]
    /\ all_weeks_ws = NoSheet
    /\ failures = 0
    /\ rebuilds = 0
    /\ clock_logs = <<>>
    /\ rejected = <<>>
    /\ daily_hours = <<>>
    /\ report = <<>>

\* The punch path: forms arrive at the request workers while time passes
Next ==
    \/ \E p \in Procs, form \in Forms : Submit(p, form)
    \/ \E p \in Procs : Finish(p)
    \/ Tick

Spec == Init /\ [][Next]_vars

(***************************************************************************)
(* The mirror on its own: the calls that reach the spreadsheet, with the   *)
(* arguments clock_submit can pass drawn from small sets instead of being  *)
(* computed from the store.                                                *)
(***************************************************************************)
\* rows logged to the week sheets so far (header rows apart)
RECURSIVE RowCount(_, _)
RowCount(wss, ws) ==
    IF ws = {} THEN 0
    ELSE LET w == CHOOSE x \in ws : TRUE
         IN  Len(SelectSeq(wss[w].values, LAMBDA row : row # WeekHeader))
             + RowCount(wss, ws \ {w})

\* The requests clock_submit can hand to the mirror at instant now: an IN,
\* an OUT that found no open IN, an OUT matched to an IN punched at an
\* earlier reading of the clock
MirrorRequests(now) ==
    { [Idle EXCEPT !.pc = "insert", !.crew = c, !.action = "IN", !.now = now] :
        c \in Crews }
    \cup { [Idle EXCEPT !.pc = "insert", !.crew = c, !.action = "OUT", !.now = now] :
        c \in Crews }
    \cup { [Idle EXCEPT !.pc = "insert", !.crew = c, !.action = "OUT", !.now = now,
                        !.ts_in_val = <<Wall(i)>>,
                        !.ts_out_val = <<strftime_ts(now)>>,
                        !.hours_val = <<Round2(Wall(now) - Wall(i))>>] :
        c \in Crews, i \in {j \in Instants : j <= now} }

\* lines 286-293 of clock_submit for a drawn request
MirrorPunch(r) ==
    /\ RowCount(week_ws, Weeks) < MaxRows
    /\ \E o \in MirrorOutcomes(Sheets, r, strftime_ts(clock)) :
          /\ failures + o.failed <= MaxFailures
          /\ failures' = failures + o.failed
          /\ week_ws' = o.m.week
          /\ totals_ws' = o.m.totals
          /\ all_weeks_ws' = o.m.all
    /\ UNCHANGED <<entries, clock, req, rebuilds, clock_logs, rejected,
                   daily_hours, report>>

\* gs_test (/gs-test): a PING row for crew TEST
GsTest ==
    /\ RowCount(week_ws, Weeks) < MaxRows
    /\ \E o \in LogCall(Sheets, DateOf(Wall(clock)), "TEST", "PING",
                        <<strftime_ts(clock)>>, <<>>, <<>>) :
          /\ failures + (IF o.failed THEN 1 ELSE 0) <= MaxFailures
          /\ failures' = failures + (IF o.failed THEN 1 ELSE 0)
          /\ week_ws' = o.m.week
    /\ UNCHANGED <<entries, clock, req, totals_ws, all_weeks_ws, rebuilds,
                   clock_logs, rejected, daily_hours, report>>

NextMirror ==
    \/ \E r \in MirrorRequests(clock) : MirrorPunch(r)
    \/ \E w \in Weeks : RebuildTotals(w)
    \/ GsTest
    \/ Tick

SpecMirror == Init /\ [][NextMirror]_vars

(***************************************************************************)
(* The aggregators on their own, over every small content of the tables    *)
(***************************************************************************)
Stamps == {Wall(i) : i \in Instants}

Punches == Crews \X Actions \X Stamps

\* Every content of the table of up to MaxLogs rows.  Row ids need not follow
\* the timestamps: a request reads the clock before it inserts, so two
\* workers can insert out of order, and the wall clock steps back at FallBack.
Histories == UNION { [1..n -> Punches] : n \in 0..MaxLogs }

\* a row of entries as the ClockLog row with the same meaning
AsClockLog(e) == <<e[1], IF e[2] = "IN" THEN "clock_in" ELSE "clock_out", e[3]>>

InitAgg ==
    /\ entries \in Histories
    /\ clock_logs = [i \in 1..Len(entries) |-> AsClockLog(entries[i])]
    /\ clock = FirstInstant
    /\ req = [p \in Procs |-> Idle]
    /\ week_ws = [w \in Weeks |-> NoSheet]
    /\ totals_ws = [w \in Weeks |-> NoSheet]
    /\ all_weeks_ws = NoSheet
    /\ failures = 0
    /\ rebuilds = 0
    /\ rejected = <<>>
    /\ daily_hours = <<>>
    /\ report = <<>>

\* clock_page (GET /): the daily hours shown, for one of the row orders the
\* query may return
ClockPage ==
    /\ \E o \in DailyOrders(entries) :
          daily_hours' = <<calculate_daily_hours(entries, o)>>
    /\ UNCHANGED <<entries, clock, req, mirror, failures, rebuilds, clock_logs,
                   rejected, report>>

\* weekly_buckets(ClockLog.query.all())
WeeklyReport ==
    /\ report' = <<weekly_buckets(clock_logs)>>
    /\ UNCHANGED <<entries, clock, req, mirror, failures, rebuilds, clock_logs,
                   rejected, daily_hours>>

NextAgg == ClockPage \/ WeeklyReport

SpecAgg == InitAgg /\ [][NextAgg]_vars

(***************************************************************************)
(* Properties                                                              *)
(***************************************************************************)
\* the row ids of one crew in pairing order (timestamp, insertion sequence)
HistoryOf(tbl, c) == SortByTsId(tbl, RowsOfCrew(tbl, c))

\* the history of crew c is [IN t1, IN t2, OUT t3] with t1 < t2 < t3
TwoInsOneOut(tbl, c) ==
    LET h == HistoryOf(tbl, c)
    IN  /\ Len(h) = 3
        /\ tbl[h[1]][2] = "IN" /\ tbl[h[2]][2] = "IN" /\ tbl[h[3]][2] = "OUT"
        /\ tbl[h[1]][3] < tbl[h[2]][3] /\ tbl[h[2]][3] < tbl[h[3]][3]

\* C1: an OUT pairs with the most recently unmatched IN of the same person in
\* the open-IN finder and in aggregation alike: for a history
\* [IN t1, IN t2, OUT t3], t1 < t2 < t3, the finder leaves t1 open and the
\* daily hours shown are exactly (t3 - t2) in the bucket of t2.
C1_LifoPairing ==
    \A c \in Crews :
        TwoInsOneOut(entries, c) =>
            LET h == HistoryOf(entries, c)
                t2 == entries[h[2]][3]
                t3 == entries[h[3]][3]
            IN  /\ OpenStack(entries, c) = <<h[1]>>
                /\ daily_hours # <<>> =>
                      /\ c \in DOMAIN daily_hours[1]
                      /\ daily_hours[1][c] = (DateOf(t2) :> (t3 - t2))

\* C2: two OUT requests of one person in flight at once never both hold a
\* matched-pair summary for the same IN.
C2_OneConsumer ==
    \A p, q \in Procs :
        ( /\ p # q
          /\ req[p].pc = "insert" /\ req[q].pc = "insert"
          /\ req[p].action = "OUT" /\ req[q].action = "OUT"
          /\ req[p].crew = req[q].crew
          /\ req[p].in_id # <<>> /\ req[q].in_id # <<>> )
        => req[p].in_id # req[q].in_id

\* a form whose person is empty after trimming or whose action, trimmed and
\* upper-cased, is neither IN nor OUT
InvalidForm(form) ==
    Strip(form[1]) = "" \/ UpperStrip(Text(form[2])) \notin {"IN", "OUT"}

\* C3: a submission with an invalid form is turned away before any mutation:
\* it never becomes a request in progress, and the step that turns it away
\* leaves the store and every mirror sheet as they were.
C3_RejectBeforeMutation ==
    [][ /\ \A p \in Procs : req'[p].pc = "insert" => ~InvalidForm(req'[p].form)
        /\ rejected' # rejected =>
              /\ InvalidForm(rejected')
              /\ UNCHANGED <<entries, week_ws, totals_ws, all_weeks_ws>> ]_vars

C3_Witness ==
    /\ rejected = <<"  ", "IN">>
    /\ Len(entries) > 0
    /\ \E w \in Weeks : week_ws[w].exists

\* C4: the step in which a request makes its mirror calls appends its punch
\* to the store and returns, whether the mirror calls fail or not; no step
\* takes a punch out of the store again.
C4_AppendDespiteMirror ==
    [][ /\ \A p \in Procs :
             (req[p].pc = "insert" /\ req'[p].pc # "insert") =>
                 /\ entries' = Append(entries,
                                  <<req[p].crew, req[p].action, Wall(req[p].now)>>)
                 /\ req'[p].pc = "idle"
        /\ Len(entries') >= Len(entries)
        /\ SubSeq(entries', 1, Len(entries)) = entries ]_vars

\* a punch is in the store although the mirror call of its request failed
\* before it wrote anything
C4_Witness ==
    /\ failures > 0
    /\ Len(entries) = 1
    /\ \A w \in Weeks : ~week_ws[w].exists
    /\ \A p \in Procs : req[p].pc = "idle"

\* every value of a {bucket: hours} dictionary of dictionaries is >= 0
NonNegative(result) ==
    \A c \in DOMAIN result : \A b \in DOMAIN result[c] : result[c][b] >= 0

EntriesAsLogs == [i \in 1..Len(entries) |-> AsClockLog(entries[i])]

\* C7: hours are never negative: the hours clock_submit computes for an OUT
\* and every bucket total of calculate_daily_hours and weekly_buckets.
C7_HoursNonNegative ==
    /\ \A p \in Procs : req[p].hours_val # <<>> => req[p].hours_val[1] >= 0
    /\ \A o \in DailyOrders(entries) : NonNegative(calculate_daily_hours(entries, o))
    /\ NonNegative(weekly_buckets(EntriesAsLogs))

\* the whole history of crew c is [IN t1, OUT t2] with t1 <= t2
OneInOneOut(tbl, c) ==
    LET ids == RowsOfCrew(tbl, c)
    IN  /\ Cardinality(ids) = 2
        /\ \E i, j \in ids :
              /\ i < j
              /\ tbl[i][2] = "IN" /\ tbl[j][2] = "OUT"
              /\ tbl[i][3] <= tbl[j][3]

\* C8: for a person whose whole history is [IN t1, OUT t2], t1 <= t2, both
\* aggregators yield exactly one bucket, that of t1, holding (t2 - t1)/3600
\* hours (daily hours are in ticks, weekly ones in hundredths of an hour).
C8_SinglePairExact ==
    \A c \in Crews :
        OneInOneOut(entries, c) =>
            LET h == HistoryOf(entries, c)
                ids == RowsOfCrew(entries, c)
                i == CHOOSE x \in ids : \A y \in ids : x <= y
                j == CHOOSE x \in ids : \A y \in ids : y <= x
                t1 == entries[i][3]
                t2 == entries[j][3]
            IN  /\ daily_hours # <<>> =>
                      /\ c \in DOMAIN daily_hours[1]
                      /\ daily_hours[1][c] = (DateOf(t1) :> (t2 - t1))
                /\ report # <<>> =>
                      /\ DOMAIN report[1][c] = {WeekOf(t1)}
                      /\ report[1][c][WeekOf(t1)] * TicksPerHour = 100 * (t2 - t1)

\* the rows of crew c that come before position k of order
CrewPrefix(tbl, order, k, c) ==
    SelectSeq(SubSeq(order, 1, k - 1), LAMBDA i : tbl[i][1] = c)

\* position k of order holds an OUT with no open IN of its crew before it
DanglingOut(tbl, order, k) ==
    /\ tbl[order[k]][2] = "OUT"
    /\ StackAfter(tbl, CrewPrefix(tbl, order, k, tbl[order[k]][1]), <<>>) = <<>>

\* position k of order holds an IN with no OUT of its crew after it
DanglingIn(tbl, order, k) ==
    /\ tbl[order[k]][2] = "IN"
    /\ \A j \in (k + 1)..Len(order) :
          ~(tbl[order[j]][1] = tbl[order[k]][1] /\ tbl[order[j]][2] = "OUT")

Dangling(tbl, order, k) == DanglingOut(tbl, order, k) \/ DanglingIn(tbl, order, k)

InPairs(pairs, i) == \E k \in 1..Len(pairs) : i \in {pairs[k][1], pairs[k][2]}

\* the whole history of crew c is one OUT
SingleOut(tbl, c) ==
    \E i \in 1..Len(tbl) : RowsOfCrew(tbl, c) = {i} /\ tbl[i][2] = "OUT"

\* C9: a dangling punch (an OUT with no open IN before it, an IN with no
\* later OUT) is matched to nothing and can be taken out of the rows without
\* changing any bucket total, in calculate_daily_hours for every fetch order
\* and in weekly_buckets; a person whose history is a single OUT is absent
\* from the daily hours and has an empty dictionary in the weekly report.
\* (clock_logs holds the rows of entries, so positions agree.)
C9_DanglingContributeNothing ==
    /\ \A o \in DailyOrders(entries) : \A k \in 1..Len(o) :
          Dangling(entries, o, k) =>
              /\ ~InPairs(DailyRun(entries, o).pairs, o[k])
              /\ calculate_daily_hours(entries, RemoveAt(o, k))
                    = calculate_daily_hours(entries, o)
    /\ \A c \in Crews :
          LET logs == LogsOf(clock_logs, c)
              start == [total |-> EmptyDict, pairs |-> <<>>]
          IN  \A k \in 1..Len(logs) :
                Dangling(entries, logs, k) =>
                    /\ ~InPairs(BucketRun(clock_logs, c).pairs, logs[k])
                    /\ BucketLoop(clock_logs, RemoveAt(logs, k), 1, start).total
                          = BucketRun(clock_logs, c).total
    /\ \A c \in Crews :
          SingleOut(entries, c) =>
              /\ daily_hours # <<>> => c \notin DOMAIN daily_hours[1]
              /\ report # <<>> => DOMAIN report[1][c] = {}

\* both aggregators have run on a history [OUT, IN, OUT] of one crew: the
\* first OUT dangles, the other two punches are a matched pair
C9_Witness ==
    /\ daily_hours # <<>>
    /\ report # <<>>
    /\ \E c \in Crews :
          LET h == HistoryOf(entries, c)
          IN  /\ Len(h) = 3
              /\ entries[h[1]][2] = "OUT" /\ entries[h[2]][2] = "IN"
              /\ entries[h[3]][2] = "OUT"
              /\ entries[h[2]][3] < entries[h[3]][3]
              /\ c \in DOMAIN daily_hours[1]
              /\ daily_hours[1][c]
                    = (DateOf(entries[h[2]][3]) :> (entries[h[3]][3] - entries[h[2]][3]))
              /\ \E d \in Crews \ {c} : SingleOut(entries, d) \/ RowsOfCrew(entries, d) = {}

\* C10: the hours of a matched pair go to the bucket of the IN instant at
\* every place: the week sheet log_week_row picks and the week clock_submit
\* rebuilds are the ISO week of ts_in, every row with hours lies in the week
\* sheet of its ts_in, and for a history [IN t1, OUT t2], t1 < t2, the daily
\* and weekly aggregators have the bucket of t1 and no other.
C10_InBucket ==
    /\ \A p \in Procs :
          req[p].hours_val # <<>> =>
              /\ WeekOfDate(DateOf(Wall(req[p].now))) = WeekOf(req[p].ts_in_val[1])
              /\ RebuildWeek(req[p]) = WeekOf(req[p].ts_in_val[1])
    /\ \A w \in Weeks : \A k \in 1..Len(week_ws[w].values) :
          LET row == week_ws[w].values[k]
          IN  (row # WeekHeader /\ row[6] # <<>>) => WeekOf(row[4][2]) = w
    /\ \A c \in Crews :
          (OneInOneOut(entries, c) /\ Len(HistoryOf(entries, c)) = 2
             /\ entries[HistoryOf(entries, c)[1]][2] = "IN"
             /\ entries[HistoryOf(entries, c)[1]][3] < entries[HistoryOf(entries, c)[2]][3]) =>
              LET t1 == entries[HistoryOf(entries, c)[1]][3]
              IN  /\ \A o \in DailyOrders(entries) :
                        DOMAIN calculate_daily_hours(entries, o)[c] = {DateOf(t1)}
                  /\ DOMAIN weekly_buckets(EntriesAsLogs)[c] = {WeekOf(t1)}

\* a totals sheet without the updated_at cell of its rows below the header
TotalsSansTime(ws) ==
    LET v == ws.values
    IN  [r \in 1..Len(v) |-> IF r > 1 /\ Len(v[r]) >= 3 THEN SubSeq(v[r], 1, 2) ELSE v[r]]

\* the summary without the updated_at cell of the rows of one week
SummarySansTime(ws, week) ==
    LET v == ws.values
    IN  [r \in 1..Len(v) |->
            IF Len(v[r]) >= 4 /\ v[r][1] = <<"w", week>> THEN SubSeq(v[r], 1, 3) ELSE v[r]]

\* the instants at which a run that starts now or later reads the clock
Later == {i \in Instants : i >= clock}

\* the rebuild of week w run to its return now, and the rebuild run again
\* on what that leaves, at instant i2
FirstRun(w) == RebuildResult(Sheets, w, strftime_ts(clock))
SecondRun(s1, w, i2) == RebuildResult(s1, w, strftime_ts(i2))

OtherWeeksRows(ws, week) ==
    SelectSeq(get_all_values(ws),
              LAMBDA row : row # AllWeeksHeader /\ ~(Len(row) >= 1 /\ row[1] = <<"w", week>>))

\* C6: a rebuild for week W, however it ends, leaves every summary row of
\* another week and every totals sheet of another week with the content
\* they had before it.
C6_OtherWeeksUntouched ==
    \A w \in Weeks :
        \A o \in RebuildOutcomes(Sheets, w, strftime_ts(clock)) :
            /\ OtherWeeksRows(o.m.all, w) = OtherWeeksRows(Sheets.all, w)
            /\ \A v \in Weeks \ {w} : o.m.totals[v] = Sheets.totals[v]

\* the orders in which n rows can be supplied
SupplyOrders(n) == { p \in [1..n -> 1..n] : \A i, j \in 1..n : i # j => p[i] # p[j] }

\* C11: aggregation gives the same mapping for every order in which the same
\* punches are retrieved or supplied, rows of one person with equal
\* timestamps included: every fetch order of calculate_daily_hours gives the
\* result of the fetch in (crew, ts, id) order, and weekly_buckets gives the
\* same report for the rows supplied in any order.
C11_OrderIndependent ==
    /\ \A o1, o2 \in DailyOrders(entries) :
          calculate_daily_hours(entries, o1) = calculate_daily_hours(entries, o2)
    /\ daily_hours # <<>> =>
          \A o \in DailyOrders(entries) : daily_hours[1] = calculate_daily_hours(entries, o)
    /\ \A p \in SupplyOrders(Len(clock_logs)) :
          weekly_buckets([i \in 1..Len(clock_logs) |-> clock_logs[p[i]]])
            = weekly_buckets(clock_logs)

(***************************************************************************)
(* The store under every operation that can reach it: the punch path, the  *)
(* daily-hours page and the rebuild route together                         *)
(***************************************************************************)
NextStore ==
    \/ \E p \in Procs, form \in Forms : Submit(p, form)
    \/ \E p \in Procs : Finish(p)
    \/ ClockPage
    \/ \E w \in Weeks : RebuildTotals(w)
    \/ Tick

\* The mirror has already failed as often as the model lets it (failed
\* /gs-test calls leave no other trace), so from here on its calls succeed
InitStore ==
    /\ entries = <<>>
    /\ clock = FirstInstant
    /\ req = [p \in Procs |-> Idle]
    /\ week_ws = [w \in Weeks |-> NoSheet]
    /\ totals_ws = [w \in Weeks |-> NoSheet]
    /\ all_weeks_ws = NoSheet
    /\ failures = MaxFailures
    /\ rebuilds = 0
    /\ clock_logs = <<>>
    /\ rejected = <<>>
    /\ daily_hours = <<>>
    /\ report = <<>>

SpecStore == InitStore /\ [][NextStore]_vars

\* C12: the store is append-only.  No step of the punch path, the daily
\* hours page or the rebuild route changes or drops a row already in
\* entries; a step adds at most one row and only when a request finishes;
\* the row a finishing request adds carries the person of its form trimmed,
\* the action trimmed and upper-cased, and the reading of the clock the
\* request took when it was accepted.
C12_AppendOnly ==
    [][ /\ Len(entries') >= Len(entries)
        /\ Len(entries') <= Len(entries) + 1
        /\ SubSeq(entries', 1, Len(entries)) = entries
        /\ \A p \in Procs :
             (req[p].pc = "idle" /\ req'[p].pc = "insert") =>
                 /\ req'[p].now = clock
                 /\ ~InvalidForm(req'[p].form)
                 /\ entries' = entries
        /\ \A p \in Procs :
             (req[p].pc = "insert" /\ req'[p].pc = "idle") =>
                 entries' = Append(entries,
                              << Strip(req[p].form[1]), UpperStrip(Text(req[p].form[2])),
                                 strftime_ts(req[p].now) >>)
        /\ Len(entries') = Len(entries) + 1 =>
             \E p \in Procs : req[p].pc = "insert" /\ req'[p].pc = "idle"
        /\ (daily_hours' # daily_hours \/ rebuilds' # rebuilds) => entries' = entries ]_vars

\* punches are in the store, the daily hours of a matched pair have been
\* shown and a rebuild has been served
C12_Witness ==
    /\ Len(entries) >= 2
    /\ daily_hours # <<>>
    /\ DOMAIN daily_hours[1] # {}
    /\ rebuilds = 1

(***************************************************************************)
(* The rebuild on its own, over week sheets holding any small set of rows: *)
(* rows the program logs and rows typed into the sheet by hand             *)
(***************************************************************************)
\* what the action and hours cells of a row can hold
RowKinds ==
    { <<"OUT", <<"n", 150>>>>, <<"OUT", <<"n", 25>>>>, <<"OUT", <<"t", 150>>>>,
      <<"OUT", <<>>>>, <<"OUT", Text("abc")>>, <<"OUT", Text("nan")>>,
      <<"IN", <<"n", 150>>>>,
      <<" out", <<"n", 25>>>>, <<"PING", <<"n", 25>>>> }

\* the rows of a week sheet below its header: full rows, a full row whose
\* crew cell has a leading blank, and a row that ends after its crew cell
SheetRows ==
    { << <<"date", 0>>, Text(c), Text(k[1]), <<>>, <<>>, k[2], Text("crew-clock") >> :
        c \in Crews, k \in RowKinds }
    \cup { << <<"date", 0>>, Text(" a"), Text("OUT"), <<>>, <<>>, <<"n", 25>>,
              Text("crew-clock") >>,
           << <<"date", 0>>, Text("a") >> }

FirstWeek == CHOOSE w \in Weeks : \A v \in Weeks : w <= v

InitRebuild ==
    /\ \E n \in 0..MaxRows : \E rows \in [1..n -> SheetRows] :
          \E other \in {NoSheet,
                        [exists |-> TRUE,
                         values |-> <<WeekHeader,
                                      << <<"date", 7>>, Text("B"), Text("OUT"), <<>>, <<>>,
                                         <<"n", 25>>, Text("crew-clock") >> >>]} :
             week_ws = [w \in Weeks |->
                          IF w = FirstWeek
                          THEN [exists |-> TRUE, values |-> <<WeekHeader>> \o rows]
                          ELSE other]
    /\ entries = <<>>
    /\ clock = FirstInstant
    /\ req = [p \in Procs |-> Idle]
    /\ totals_ws = [w \in Weeks |-> NoSheet]
    /\ all_weeks_ws = NoSheet
    /\ failures = 0
    /\ rebuilds = 0
    /\ clock_logs = <<>>
    /\ rejected = <<>>
    /\ daily_hours = <<>>
    /\ report = <<>>

NextRebuild ==
    \/ \E w \in Weeks : RebuildTotals(w)
    \/ Tick

SpecRebuild == InitRebuild /\ [][NextRebuild]_vars

\* the rows of week w's sheet below the header, as the sheet displays them
DataRows(m, w) ==
    LET v == get_all_values(m.week[w])
    IN  IF Len(v) > 1 THEN Tail(v) ELSE <<>>

\* a displayed row of a week sheet is an OUT row whose hours cell float()
\* reads
OutWithHours(row) ==
    /\ Len(row) >= 6
    /\ UpperStrip(row[3]) = "OUT"
    /\ ParseFloat(StripCell(row[6])) # <<>>

\* the persons that have such a row, and the sum of the hours of a set of
\* row positions
PersonsOf(rows) == { StripCell(rows[i][2]) : i \in {j \in 1..Len(rows) : OutWithHours(rows[j])} }

RECURSIVE HoursSum(_, _)
HoursSum(rows, is) ==
    IF is = {} THEN 0
    ELSE LET i == CHOOSE x \in is : TRUE
         IN  FAdd(ParseFloat(StripCell(rows[i][6]))[1], HoursSum(rows, is \ {i}))

HoursOf(rows, person) ==
    HoursSum(rows, {i \in 1..Len(rows) : OutWithHours(rows[i]) /\ StripCell(rows[i][2]) = person})

HoursOfAll(rows) == HoursSum(rows, {i \in 1..Len(rows) : OutWithHours(rows[i])})

\* pub, rows of <<crew, total_hours, updated_at>>, starts with one row per
\* person of rows, in case-insensitive order of the names, each holding the
\* sum of that person's OUT hours
PersonRowsOf(pub, rows, now_str) ==
    LET n == Cardinality(PersonsOf(rows))
    IN  /\ Len(pub) >= n
        /\ { pub[k][1] : k \in 1..n } = PersonsOf(rows)
        /\ \A k \in 1..n :
              /\ pub[k][2] = <<"n", HoursOf(rows, pub[k][1])>>
              /\ pub[k][3] = <<"ts", now_str>>
        /\ \A j, k \in 1..n : j < k => CellRank(pub[j][1]) <= CellRank(pub[k][1])

GrandRow(rows, now_str) ==
    << Text(WeekTotalName), <<"n", HoursOfAll(rows)>>, <<"ts", now_str>> >>

\* what a rebuild of week w run now publishes for w: in the totals sheet
\* below the header, and in the summary under the key of w
PublishedTotals(m, w) == Tail(m.totals[w].values)

PublishedSummary(m, w) ==
    LET own == SelectSeq(m.all.values, LAMBDA row : row[1] = <<"w", w>>)
    IN  [k \in 1..Len(own) |-> Tail(own[k])]

\* the week sheet of w has its header, so that a rebuild returns (True, None)
Rebuildable(m, w) == m.week[w].exists /\ Len(m.week[w].values) >= 1
                     /\ m.week[w].values[1] = WeekHeader

\* C13 (as stated): after a successful rebuild of week W both sinks hold,
\* for W, one row per person with the sum of the hours of that person's OUT
\* rows, in case-insensitive order of the names, followed by one
\* __WEEK_TOTAL__ row holding the sum over all persons.
C13_TotalsThenGrandRow ==
    \A w \in Weeks :
        Rebuildable(Sheets, w) =>
            LET r == RebuildStages(Sheets, w, strftime_ts(clock))
                m == r.stages[Len(r.stages)]
                rows == DataRows(Sheets, w)
                n == Cardinality(PersonsOf(rows))
            IN  /\ r.ok
                /\ \A pub \in {PublishedTotals(m, w), PublishedSummary(m, w)} :
                      /\ PersonRowsOf(pub, rows, strftime_ts(clock))
                      /\ Len(pub) = n + 1
                      /\ pub[n + 1] = GrandRow(rows, strftime_ts(clock))

\* C13 (amended): the same, for the persons that have an OUT row holding
\* numeric hours; the __WEEK_TOTAL__ row follows when there is such a person,
\* and when there is none nothing is published for W below the header.
C13_TotalsOfOutRows ==
    \A w \in Weeks :
        Rebuildable(Sheets, w) =>
            LET r == RebuildStages(Sheets, w, strftime_ts(clock))
                m == r.stages[Len(r.stages)]
                rows == DataRows(Sheets, w)
                n == Cardinality(PersonsOf(rows))
            IN  /\ r.ok
                /\ m.totals[w].values[1] = TotalsHeader
                /\ \A pub \in {PublishedTotals(m, w), PublishedSummary(m, w)} :
                      /\ PersonRowsOf(pub, rows, strftime_ts(clock))
                      /\ IF n = 0 THEN pub = <<>>
                         ELSE /\ Len(pub) = n + 1
                              /\ pub[n + 1] = GrandRow(rows, strftime_ts(clock))

\* a rebuild has published the totals of a person and the grand total for a
\* week whose sheet also holds a row that is not an OUT row but has hours
C13_Witness ==
    /\ rebuilds = 1
    /\ \E w \in Weeks :
          /\ Len(totals_ws[w].values) = 3
          /\ totals_ws[w].values[3][1] = Text(WeekTotalName)
          /\ \E k \in 1..Len(all_weeks_ws.values) : all_weeks_ws.values[k][1] = <<"w", w>>
          /\ \E k \in 2..Len(week_ws[w].values) :
                LET row == week_ws[w].values[k]
                IN  Len(row) >= 6 /\ row[3] \in {Text("IN"), Text("PING")} /\ row[6] # <<>>

\* a displayed row of a week sheet is malformed: too short to hold the
\* action and hours columns, or its hours cell holds text that is no number
Malformed(row) ==
    \/ Len(row) < 6
    \/ (row[6] # <<>> /\ row[6][1] = "s")

\* the spreadsheet with the malformed rows of week w's sheet taken out
WithoutMalformed(m, w) ==
    [m EXCEPT !.week[w].values =
        <<@[1]>> \o SelectSeq(Tail(@), LAMBDA row : ~Malformed(row))]

\* C14: a rebuild of a week whose sheet holds malformed rows, wherever and
\* however many, succeeds and publishes the totals it publishes for the
\* sheet without those rows.
C14_MalformedSkipped ==
    \A w \in Weeks :
        Rebuildable(Sheets, w) =>
            LET r == RebuildStages(Sheets, w, strftime_ts(clock))
                m == r.stages[Len(r.stages)]
                c == RebuildResult(WithoutMalformed(Sheets, w), w, strftime_ts(clock))
            IN  /\ r.ok
                /\ m.totals[w] = c.totals[w]
                /\ m.all = c.all

\* the rows were inserted one request after the other, each at a reading of
\* the clock no earlier than the one before
Serial(tbl) ==
    \E g \in [1..Len(tbl) -> Instants] :
        /\ \A k \in 1..Len(tbl) : tbl[k][3] = strftime_ts(g[k])
        /\ \A j, k \in 1..Len(tbl) : j < k => g[j] <= g[k]

\* the <<IN id, OUT id>> pairs clock_submit formed when the rows of tbl were
\* submitted serially: each OUT with the row _find_open_in_ts returned on
\* the rows before it
PunchPairs(tbl) ==
    { <<find_open_in(SubSeq(tbl, 1, k - 1), tbl[k][1])[1], k>> :
        k \in { j \in 1..Len(tbl) :
                  /\ tbl[j][2] = "OUT"
                  /\ find_open_in(SubSeq(tbl, 1, j - 1), tbl[j][1]) # <<>> } }

\* the hours of a set of pairs before rounding, in ticks
RECURSIVE PairHours(_, _)
PairHours(tbl, ps) ==
    IF ps = {} THEN 0
    ELSE LET pr == CHOOSE x \in ps : TRUE
         IN  (tbl[pr[2]][3] - tbl[pr[1]][3]) + PairHours(tbl, ps \ {pr})

\* the sum of the values of a dictionary
RECURSIVE DictTotal(_)
DictTotal(d) ==
    IF DOMAIN d = {} THEN 0
    ELSE LET k == CHOOSE x \in DOMAIN d : TRUE
         IN  d[k] + DictTotal([x \in DOMAIN d \ {k} |-> d[x]])

DailyTotalOf(result, c) == IF c \in DOMAIN result THEN DictTotal(result[c]) ELSE 0

\* C15: for a history built by serial punch submissions, clock_submit and
\* calculate_daily_hours match each OUT to the same IN, and for every person
\* the hours clock_submit computed (before rounding) add up to the sum of
\* that person's daily buckets.
C15_PunchTimeAgreesWithDaily ==
    Serial(entries) =>
        \A o \in DailyOrders(entries) :
            LET run == DailyRun(entries, o)
            IN  /\ { run.pairs[k] : k \in 1..Len(run.pairs) } = PunchPairs(entries)
                /\ \A c \in Crews :
                      PairHours(entries, { pr \in PunchPairs(entries) : entries[pr[2]][1] = c })
                        = DailyTotalOf(run.totals, c)

\* the pairs of a run that belong to crew c, as a set
PairsOf(tbl, pairs, c) ==
    { pairs[k] : k \in { j \in 1..Len(pairs) : tbl[pairs[j][1]][1] = c } }

\* C16: weekly_buckets on the rows of entries (IN/OUT as clock_in/clock_out)
\* and calculate_daily_hours match each OUT to the same IN, and for every
\* person the weekly buckets add up to the same hours as the daily buckets
\* (weekly values are hundredths of an hour, daily ones ticks).
C16_AggregatorsAgree ==
    \A o \in DailyOrders(entries) : \A c \in Crews :
        LET daily == DailyRun(entries, o)
            weekly == BucketRun(EntriesAsLogs, c)
            published == weekly_buckets(EntriesAsLogs)
        IN  /\ { weekly.pairs[k] : k \in 1..Len(weekly.pairs) }
                 = PairsOf(entries, daily.pairs, c)
            /\ c \in DOMAIN published =>
                  DictTotal(published[c]) * TicksPerHour = 100 * DailyTotalOf(daily.totals, c)

\* C16 without ties and without rounding: when no IN shares its timestamp
\* with another row of the same person, the hours weekly_buckets adds up
\* before rounding equal the hours calculate_daily_hours adds up.
C16_SameHoursNoInTies ==
    (\A j, k \in 1..Len(entries) :
        (j # k /\ entries[j][1] = entries[k][1] /\ entries[j][2] = "IN")
            => entries[j][3] # entries[k][3]) =>
        \A o \in DailyOrders(entries) : \A c \in Crews :
            DictTotal(BucketRun(EntriesAsLogs, c).total)
              = DailyTotalOf(DailyRun(entries, o).totals, c)

\* person and total of each published row, without its updated_at cell
SansUpdatedAt(rows) == [k \in 1..Len(rows) |-> SubSeq(rows[k], 1, 2)]

\* the rows of the totals sheet of w below its header (none without a sheet)
TotalsSinkRows(m, w) ==
    IF Len(m.totals[w].values) > 1 THEN PublishedTotals(m, w) ELSE <<>>

\* C17: in every state reached by punches and rebuilds whose mirror calls may
\* fail, the per-person totals and the grand total in the totals sheet of a
\* week equal the rows of that week in the all-weeks summary, both being
\* absent together.
C17_SinksAgree ==
    \A w \in Weeks :
        SansUpdatedAt(TotalsSinkRows(Sheets, w))
          = SansUpdatedAt(PublishedSummary(Sheets, w))

\* C17 for a single rebuild started where the sinks agree: however it ends,
\* the sinks agree about its week afterwards.
C17_RebuildKeepsAgreement ==
    C17_SinksAgree =>
        \A w \in Weeks : \A o \in RebuildOutcomes(Sheets, w, strftime_ts(clock)) :
            SansUpdatedAt(TotalsSinkRows(o.m, w))
              = SansUpdatedAt(PublishedSummary(o.m, w))

====
